---- MODULE Spec2Model ----
(***************************************************************************)
(* State-machine model of the E1.31 -> Hue Entertainment bridge runtime    *)
(* (src/OpenRGB-To-HUE.py): class HueEntertainmentBridge, its frame        *)
(* handler _on_dmx_data, start_streaming / stop_streaming and run().       *)
(*                                                                         *)
(* Two threads exist once the object is constructed: the calling thread    *)
(* (run(), or a client calling the public methods) and the sACN receiver   *)
(* thread, which invokes the registered callback for every frame.  Every   *)
(* call into the streaming library (start_stream, set_color_space,         *)
(* set_input, stop_stream) either returns or raises; both outcomes are     *)
(* actions of the model.                                                   *)
(***************************************************************************)
EXTENDS Integers, Sequences, FiniteSets, TLC

VARIABLES
    driver,        \* "run": run() drives the session; "client": the public methods are called directly
    mainpc,        \* control point of the calling thread
    session,       \* lifecycle of the session as the bridge object drives it: "Closed", "Starting", "Active"
    stream_open,   \* the streaming library holds an open stream (start_stream returned, stop_stream has not)
    receiver,      \* sACN receiver: "started" (joined, listening) or "stopped"
    stop_calls,    \* number of stop_stream() calls issued to the streaming library
    stop_error,    \* "Error stopping streaming" has been logged (l.444)
    client_calls,  \* number of method calls made by the client driver
    num_lights,    \* self.num_lights
    packet_count,  \* self.packet_count
    rxpc,          \* control point of the receiver thread inside the callback
    dmx,           \* packet.dmxData of the frame being handled
    pos,           \* position of the for-loop in range(self.num_lights), 1-based
    inputs,        \* set_input calls made for the frame being handled, in call order
    arrived_in,    \* value of session when the frame being handled was delivered
    handler_error, \* "Error processing E1.31 data" has been logged (l.423)
    cli_pc,        \* control point of main()
    exit_code,     \* value main() returned; -1 while it runs
    failure,       \* what made main() return non-zero; "none" otherwise
    args,          \* parsed command line: ip, reset, re_pair, app_key, list, area
    file,          \* the persisted config file (CONFIG_PATH)
    file0,         \* the config file as it was when main() started
    cfg,           \* the in-memory config dict of main()
    creds,         \* (app_key, clientkey) returned by ensure_app_key
    now,           \* time.time(), in seconds since create_entertainment_user set the deadline
    attempts,      \* pairing requests posted to the bridge
    last_resp,     \* kind of the bridge's answer to the latest pairing request
    last_err,      \* last_err of create_entertainment_user
    only_button,   \* every answer to a pairing request so far was "link button not pressed"
    catalog,       \* get_entertainment_configs(): the configurations the bridge exposes
    fetched,       \* get_entertainment_configs() has returned in this run
    selected       \* self.entertainment_config: the id of the selected configuration

cliVars == <<cli_pc, exit_code, failure, args, file, file0, cfg, creds,
             now, attempts, last_resp, last_err, only_button, catalog, fetched, selected>>

vars == <<driver, mainpc, session, stream_open, receiver, stop_calls, stop_error, client_calls,
          num_lights, packet_count, rxpc, dmx, pos, inputs, arrived_in, handler_error, cliVars>>

mainVars == <<mainpc, session, stream_open, receiver, stop_calls, stop_error, client_calls>>
rxVars == <<packet_count, rxpc, dmx, pos, inputs, arrived_in, handler_error>>

(* ------------------------------ bounds -------------------------------- *)

MaxLights == 2      \* num_lights ranges over 0..MaxLights
MaxLen == 6         \* frames carry 0..MaxLen channel bytes
MaxPackets == 2     \* frames delivered in one behaviour
MaxCalls == 2       \* method calls made by the client driver

(* --------------------------- program constants ------------------------ *)

ChannelsPerLight == 3
ByteMax == 255
PairWindow == 30        \* deadline = time.time() + 30
RequestTimeout == 3     \* requests.post(..., timeout=3)
SleepSeconds == 2       \* time.sleep(2)

Bytes == {0, ByteMax}

RECURSIVE SeqsUpTo(_)
SeqsUpTo(n) ==
    IF n = 0 THEN {<<>>}
    ELSE LET shorter == SeqsUpTo(n - 1)
         IN  shorter \cup {Append(s, b) : s \in {t \in shorter : Len(t) = n - 1}, b \in Bytes}

Frames == SeqsUpTo(MaxLen)

(* ------------------------------ translation --------------------------- *)

\* r / 255.0: the quotient, kept as the fraction <<numerator, denominator>>
Normalize(byte) == <<byte, ByteMax>>

\* Mutant of Range: the loop visits the lights from the last to the first.
RangeReversed(n) == [k \in 1..n |-> n - k]

\* range(self.num_lights): the indices the for-loop visits, in visiting order
Range(n) == [k \in 1..n |-> k - 1]

\* channel_offset = idx * 3
ChannelOffset(idx) == idx * ChannelsPerLight

\* Mutant of Covered: the length test is strict (> instead of >=).
CoveredStrict(frame, idx) == Len(frame) > ChannelOffset(idx) + 3

\* len(dmx) >= channel_offset + 3
Covered(frame, idx) == Len(frame) >= ChannelOffset(idx) + 3

\* Mutant of ColorTuple: the channels are read in the order blue, green, red.
ColorTupleBGR(frame, idx) ==
    [r |-> Normalize(frame[ChannelOffset(idx) + 3]),
     g |-> Normalize(frame[ChannelOffset(idx) + 2]),
     b |-> Normalize(frame[ChannelOffset(idx) + 1]),
     idx |-> idx]

\* (r / 255.0, g / 255.0, b / 255.0, idx); dmx is 0-based in the code, 1-based here
ColorTuple(frame, idx) ==
    [r |-> Normalize(frame[ChannelOffset(idx) + 1]),
     g |-> Normalize(frame[ChannelOffset(idx) + 2]),
     b |-> Normalize(frame[ChannelOffset(idx) + 3]),
     idx |-> idx]

(* ----------------------- command line, config, bridge ------------------ *)

\* A string value with the place it came from: "none" is None (or an absent
\* key), "empty" is "", "arg" / "cli" the command line, "cfg" the config file
\* as it was when main() started, "nupnp" discovery, "pair" the answer to
\* pairing request number n.
Val(src, n) == [src |-> src, n |-> n]
NoVal == Val("none", 0)
EmptyVal == Val("empty", 0)

\* Python truthiness of an Optional[str]
Truthy(v) == v.src \notin {"none", "empty"}

\* Python's `a or b`
Or(a, b) == IF Truthy(a) THEN a ELSE b

\* {} as load_config returns it for a missing file
EmptyCfg == [bridge_ip |-> NoVal, app_key |-> NoVal, clientkey |-> NoVal, updated_at |-> "none"]

\* The config files a run may find
StoredFiles ==
    {[bridge_ip |-> ip, app_key |-> u, clientkey |-> k,
      updated_at |-> IF Truthy(ip) \/ Truthy(u) \/ Truthy(k) THEN "old" ELSE "none"] :
        ip \in {NoVal, Val("cfg", 0)}, u \in {NoVal, Val("cfg", 0)}, k \in {NoVal, Val("cfg", 0)}}

\* argparse result; app_key, list and area are set when main() first reads them
ArgsAtStart ==
    [ip : {NoVal, Val("arg", 0)}, reset : BOOLEAN, re_pair : BOOLEAN,
     app_key : {NoVal}, list : {FALSE}, area : {<<>>}]

\* str.lower() on the letters of the model's strings (strings are sequences of characters)
LowerChar(c) ==
    CASE c = "A" -> "a"
      [] c = "L" -> "l"
      [] c = "O" -> "o"
      [] OTHER -> c

Lower(str) == [k \in 1..Len(str) |-> LowerChar(str[k])]

\* Identifiers and display names of the configurations a bridge may expose,
\* and the strings --area may carry
AreaIds == {<<"A", "1">>, <<"b", "2">>}
AreaNames == {<<"L", "i", "v">>, <<"O", "f">>}
AreaRequests == {<<"a", "1">>, <<"A", "1">>, <<"l", "i", "v">>, <<"L", "i">>, <<"O", "F">>, <<"x">>}

\* get_entertainment_configs(): a dict keyed by identifier, here the set of
\* its configurations [id, name, channels]
Catalogs ==
    LET Entries == [id : AreaIds, name : AreaNames, channels : 1..MaxLights]
    IN  {c \in SUBSET Entries : \A x, y \in c : x.id = y.id => x = y}

\* the main() state while run() is executing
CliInRun ==
    /\ cli_pc = "run"
    /\ exit_code = -1
    /\ failure = "none"
    /\ args = [ip |-> NoVal, reset |-> FALSE, re_pair |-> FALSE,
               app_key |-> NoVal, list |-> FALSE, area |-> <<"A", "1">>]
    /\ file = EmptyCfg
    /\ file0 = EmptyCfg
    /\ cfg = EmptyCfg
    /\ creds = <<NoVal, NoVal>>
    /\ now = 0
    /\ attempts = 0
    /\ last_resp = [kind |-> "none", username |-> NoVal, clientkey |-> NoVal]
    /\ last_err = "none"
    /\ only_button = TRUE
    /\ catalog = {}
    /\ fetched = FALSE
    /\ selected = <<>>

(* ------------------------------ Init ---------------------------------- *)

\* State after HueEntertainmentBridge.__init__: the receiver is joined,
\* the callback registered and the receiver started; no stream is open.
InitCommon ==
    /\ session = "Closed"
    /\ stream_open = FALSE
    /\ receiver = "started"
    /\ stop_calls = 0
    /\ stop_error = FALSE
    /\ client_calls = 0
    /\ num_lights \in 0..MaxLights
    /\ packet_count = 0
    /\ rxpc = "idle"
    /\ dmx = <<>>
    /\ pos = 1
    /\ inputs = <<>>
    /\ arrived_in = "Closed"
    /\ handler_error = FALSE

Init ==
    /\ driver = "run"
    /\ mainpc = "start_stream"
    /\ InitCommon
    /\ CliInRun

InitApi ==
    /\ driver = "client"
    /\ mainpc = "idle"
    /\ InitCommon
    /\ CliInRun

(* ------------------- receiver thread: callback / _on_dmx_data ---------- *)

\* The receiver thread calls callback(packet) itself and goes on listening
\* only when the call has returned (l.371-372, l.377): it can deliver a
\* frame only while no callback is running on it.
ListenerReady == receiver = "started" /\ rxpc = "idle"

\* A frame of the universe arrives: callback -> _on_dmx_data, up to the for-loop.
Deliver(frame) ==
    /\ ListenerReady
    /\ packet_count < MaxPackets
    /\ packet_count' = packet_count + 1
    /\ dmx' = frame
    /\ pos' = 1
    /\ inputs' = <<>>
    /\ arrived_in' = session
    /\ rxpc' = "loop"
    /\ UNCHANGED <<driver, num_lights, handler_error>>
    /\ UNCHANGED mainVars
    /\ UNCHANGED cliVars

DeliverAny == \E frame \in Frames : Deliver(frame)

InLoop == rxpc = "loop" /\ pos <= Len(Range(num_lights))

Idx == Range(num_lights)[pos]

\* One loop iteration, the frame covers the light, set_input returns.
SetInputOk ==
    /\ InLoop
    /\ Covered(dmx, Idx)
    /\ inputs' = Append(inputs, [color |-> ColorTuple(dmx, Idx), ok |-> TRUE])
    /\ pos' = pos + 1
    /\ UNCHANGED <<driver, num_lights, packet_count, rxpc, dmx, arrived_in, handler_error>>
    /\ UNCHANGED mainVars
    /\ UNCHANGED cliVars

\* Mutant of SetInputRaises: the failing light is skipped and the loop goes on.
SetInputRaisesSkipsLight ==
    /\ InLoop
    /\ Covered(dmx, Idx)
    /\ inputs' = Append(inputs, [color |-> ColorTuple(dmx, Idx), ok |-> FALSE])
    /\ pos' = pos + 1
    /\ handler_error' = TRUE
    /\ UNCHANGED <<driver, num_lights, packet_count, rxpc, dmx, arrived_in>>
    /\ UNCHANGED mainVars
    /\ UNCHANGED cliVars

\* One loop iteration, the frame covers the light, set_input raises: the
\* for-loop is left for the except clause.
SetInputRaises ==
    /\ InLoop
    /\ Covered(dmx, Idx)
    /\ inputs' = Append(inputs, [color |-> ColorTuple(dmx, Idx), ok |-> FALSE])
    /\ rxpc' = "except"
    /\ UNCHANGED <<driver, num_lights, packet_count, dmx, pos, arrived_in, handler_error>>
    /\ UNCHANGED mainVars
    /\ UNCHANGED cliVars

\* Mutant of SkipLight: after the first packet a covered light may be skipped too.
SkipLightAfterFirstPacket ==
    /\ InLoop
    /\ ~Covered(dmx, Idx) \/ packet_count > 1
    /\ pos' = pos + 1
    /\ UNCHANGED <<driver, num_lights, packet_count, rxpc, dmx, inputs, arrived_in, handler_error>>
    /\ UNCHANGED mainVars
    /\ UNCHANGED cliVars

\* One loop iteration, the frame is too short for the light: nothing is done.
SkipLight ==
    /\ InLoop
    /\ ~Covered(dmx, Idx)
    /\ pos' = pos + 1
    /\ UNCHANGED <<driver, num_lights, packet_count, rxpc, dmx, inputs, arrived_in, handler_error>>
    /\ UNCHANGED mainVars
    /\ UNCHANGED cliVars

\* range(self.num_lights) is exhausted.
LoopDone ==
    /\ rxpc = "loop"
    /\ pos > Len(Range(num_lights))
    /\ rxpc' = "ret"
    /\ UNCHANGED <<driver, num_lights, packet_count, dmx, pos, inputs, arrived_in, handler_error>>
    /\ UNCHANGED mainVars
    /\ UNCHANGED cliVars

\* Mutant of HandlerExcept: the exception is not caught; it leaves the callback
\* and ends the receiver thread.
HandlerExceptPropagates ==
    /\ rxpc = "except"
    /\ rxpc' = "dead"
    /\ UNCHANGED <<driver, num_lights, packet_count, dmx, pos, inputs, arrived_in, handler_error>>
    /\ UNCHANGED mainVars
    /\ UNCHANGED cliVars

\* except Exception: logger.error(...); the handler then returns normally.
HandlerExcept ==
    /\ rxpc = "except"
    /\ handler_error' = TRUE
    /\ rxpc' = "ret"
    /\ UNCHANGED <<driver, num_lights, packet_count, dmx, pos, inputs, arrived_in>>
    /\ UNCHANGED mainVars
    /\ UNCHANGED cliVars

\* _on_dmx_data and callback return to the receiver thread; the frame is dropped.
HandlerReturn ==
    /\ rxpc = "ret"
    /\ rxpc' = "idle"
    /\ dmx' = <<>>
    /\ pos' = 1
    /\ inputs' = <<>>
    /\ arrived_in' = "Closed"
    /\ UNCHANGED <<driver, num_lights, packet_count, handler_error>>
    /\ UNCHANGED mainVars
    /\ UNCHANGED cliVars

Handler ==
    \/ DeliverAny
    \/ SetInputOk
    \/ SetInputRaises
    \/ SkipLight
    \/ LoopDone
    \/ HandlerExcept
    \/ HandlerReturn

(* ------------------- calling thread: start / stop / run ---------------- *)

\* Where the calling thread continues when start_streaming returns / raises
\* and when stop_streaming returns.
AfterStartOk == IF driver = "run" THEN "loop" ELSE "idle"
AfterStartRaised == IF driver = "run" THEN "raised" ELSE "idle"
AfterStop == IF driver = "run" THEN "receiver_stop" ELSE "idle"

\* self.streaming.start_stream() returns.
StartStreamOk ==
    /\ mainpc = "start_stream"
    /\ stream_open' = TRUE
    /\ session' = "Starting"
    /\ mainpc' = "set_color_space"
    /\ UNCHANGED <<driver, num_lights, receiver, stop_calls, stop_error, client_calls>>
    /\ UNCHANGED rxVars
    /\ UNCHANGED cliVars

\* self.streaming.start_stream() raises: logged and re-raised.
StartStreamRaises ==
    /\ mainpc = "start_stream"
    /\ session' = "Closed"
    /\ mainpc' = AfterStartRaised
    /\ UNCHANGED <<driver, num_lights, stream_open, receiver, stop_calls, stop_error, client_calls>>
    /\ UNCHANGED rxVars
    /\ UNCHANGED cliVars

\* self.streaming.set_color_space("rgb") returns: start_streaming returns.
SetColorSpaceOk ==
    /\ mainpc = "set_color_space"
    /\ session' = "Active"
    /\ mainpc' = AfterStartOk
    /\ UNCHANGED <<driver, num_lights, stream_open, receiver, stop_calls, stop_error, client_calls>>
    /\ UNCHANGED rxVars
    /\ UNCHANGED cliVars

\* self.streaming.set_color_space("rgb") raises: logged and re-raised; the
\* stream start_stream opened is not stopped.
SetColorSpaceRaises ==
    /\ mainpc = "set_color_space"
    /\ session' = "Closed"
    /\ mainpc' = AfterStartRaised
    /\ UNCHANGED <<driver, num_lights, stream_open, receiver, stop_calls, stop_error, client_calls>>
    /\ UNCHANGED rxVars
    /\ UNCHANGED cliVars

\* self.streaming.stop_stream() returns.
StopStreamOk ==
    /\ mainpc = "stop_stream"
    /\ stop_calls' = stop_calls + 1
    /\ stream_open' = FALSE
    /\ session' = "Closed"
    /\ mainpc' = AfterStop
    /\ UNCHANGED <<driver, num_lights, receiver, stop_error, client_calls>>
    /\ UNCHANGED rxVars
    /\ UNCHANGED cliVars

\* Mutant of StopStreamRaises: the exception is logged and re-raised, as
\* start_streaming does; it leaves run().
StopStreamPropagates ==
    /\ mainpc = "stop_stream"
    /\ stop_calls' = stop_calls + 1
    /\ stop_error' = TRUE
    /\ mainpc' = IF driver = "run" THEN "raised" ELSE "idle"
    /\ UNCHANGED <<driver, num_lights, session, stream_open, receiver, client_calls>>
    /\ UNCHANGED rxVars
    /\ UNCHANGED cliVars

\* self.streaming.stop_stream() raises: except Exception logs it, and
\* stop_streaming returns normally.
StopStreamRaises ==
    /\ mainpc = "stop_stream"
    /\ stop_calls' = stop_calls + 1
    /\ stop_error' = TRUE
    /\ session' = "Closed"
    /\ mainpc' = AfterStop
    /\ UNCHANGED <<driver, num_lights, stream_open, receiver, client_calls>>
    /\ UNCHANGED rxVars
    /\ UNCHANGED cliVars

\* run(): KeyboardInterrupt in the sleep loop; stop_streaming() is called first.
Interrupt ==
    /\ driver = "run"
    /\ mainpc = "loop"
    /\ mainpc' = "stop_stream"
    /\ UNCHANGED <<driver, num_lights, session, stream_open, receiver, stop_calls, stop_error, client_calls>>
    /\ UNCHANGED rxVars
    /\ UNCHANGED cliVars

\* run(): self.receiver.stop() after stop_streaming() has returned; run returns.
ReceiverStop ==
    /\ driver = "run"
    /\ mainpc = "receiver_stop"
    /\ receiver' = "stopped"
    /\ mainpc' = "done"
    /\ UNCHANGED <<driver, num_lights, session, stream_open, stop_calls, stop_error, client_calls>>
    /\ UNCHANGED rxVars
    /\ UNCHANGED cliVars

\* A client of the class calls start_streaming().
ClientStart ==
    /\ driver = "client"
    /\ mainpc = "idle"
    /\ client_calls < MaxCalls
    /\ client_calls' = client_calls + 1
    /\ mainpc' = "start_stream"
    /\ UNCHANGED <<driver, num_lights, session, stream_open, receiver, stop_calls, stop_error>>
    /\ UNCHANGED rxVars
    /\ UNCHANGED cliVars

\* A client of the class calls stop_streaming().
ClientStop ==
    /\ driver = "client"
    /\ mainpc = "idle"
    /\ client_calls < MaxCalls
    /\ client_calls' = client_calls + 1
    /\ mainpc' = "stop_stream"
    /\ UNCHANGED <<driver, num_lights, session, stream_open, receiver, stop_calls, stop_error>>
    /\ UNCHANGED rxVars
    /\ UNCHANGED cliVars

StartStop ==
    \/ StartStreamOk
    \/ StartStreamRaises
    \/ SetColorSpaceOk
    \/ SetColorSpaceRaises
    \/ StopStreamOk
    \/ StopStreamRaises

(* ------------------------------ main(): credentials -------------------- *)

hotVars == <<driver, num_lights, mainVars, rxVars>>

\* Mutant of ExitCode: a code of its own for the missing clientkey.
ExitCodeMissingClientkey(f) ==
    CASE f = "none" -> 0
      [] f = "discovery" -> 2
      [] f \in {"pairing_timeout", "no_credentials"} -> 3
      [] f = "bridge_create" -> 4
      [] f = "catalog_fetch" -> 5
      [] f = "empty_catalog" -> 6
      [] f = "missing_clientkey" -> 8
      [] OTHER -> 7

\* The value of each `return` of main(), by what made it return.
ExitCode(f) ==
    CASE f = "none" -> 0
      [] f = "discovery" -> 2
      [] f \in {"pairing_timeout", "missing_clientkey", "no_credentials"} -> 3
      [] f = "bridge_create" -> 4
      [] f = "catalog_fetch" -> 5
      [] f = "empty_catalog" -> 6
      [] OTHER -> 7

\* main() returns ExitCode(f)
Exit(f) ==
    /\ cli_pc' = "exit"
    /\ failure' = f
    /\ exit_code' = ExitCode(f)

\* cfg = {} if args.reset else load_config(); load_config returns {} for a
\* missing or unreadable file.
LoadConfig ==
    /\ cli_pc = "load"
    /\ cfg' \in (IF args.reset THEN {EmptyCfg} ELSE {file, EmptyCfg})
    /\ cli_pc' = "resolve_ip"
    /\ UNCHANGED <<exit_code, failure, args, file, file0, creds, now, attempts, last_resp,
                   last_err, only_button, catalog, fetched, selected>>
    /\ UNCHANGED hotVars

\* bridge_ip = args.ip or cfg.get("bridge_ip") or discover_bridge_ip()
ResolvedIp(found) == Or(Or(args.ip, cfg.bridge_ip), found)

\* what discover_bridge_ip() may return
Discovered == {NoVal, Val("nupnp", 0)}

\* Bridge IP resolution: no address, return 2.
ResolveIpFails ==
    /\ cli_pc = "resolve_ip"
    /\ \E found \in Discovered : ~Truthy(ResolvedIp(found))
    /\ Exit("discovery")
    /\ UNCHANGED <<args, file, file0, cfg, creds, now, attempts, last_resp,
                   last_err, only_button, catalog, fetched, selected>>
    /\ UNCHANGED hotVars

\* Bridge IP resolution: an address is known; cfg is updated if it differs.
ResolveIpOk ==
    /\ cli_pc = "resolve_ip"
    /\ \E found \in Discovered :
          LET ip == ResolvedIp(found)
          IN  /\ Truthy(ip)
              /\ cfg' = IF cfg.bridge_ip # ip
                        THEN [cfg EXCEPT !.bridge_ip = ip, !.updated_at = "now"]
                        ELSE cfg
    /\ cli_pc' = "ensure"
    /\ UNCHANGED <<exit_code, failure, args, file, file0, creds, now, attempts, last_resp,
                   last_err, only_button, catalog, fetched, selected>>
    /\ UNCHANGED hotVars

\* ensure_app_key, force_repair: create_entertainment_user is entered and
\* sets its deadline.
EnsureForce ==
    /\ cli_pc = "ensure"
    /\ args.re_pair
    /\ cli_pc' = "pairing"
    /\ now' = 0
    /\ attempts' = 0
    /\ last_err' = "none"
    /\ UNCHANGED <<exit_code, failure, args, file, file0, cfg, creds, last_resp,
                   only_button, catalog, fetched, selected>>
    /\ UNCHANGED hotVars

\* username = app_key or cfg.get("app_key"); clientkey = cfg.get("clientkey")
Username(app_key) == Or(app_key, cfg.app_key)
Clientkey == cfg.clientkey

\* the values --app-key may carry
CliAppKeys == {NoVal, Val("cli", 0)}

\* ensure_app_key without force, both values present: they are returned.
EnsureExisting ==
    /\ cli_pc = "ensure"
    /\ ~args.re_pair
    /\ \E k \in CliAppKeys :
          /\ Truthy(Username(k)) /\ Truthy(Clientkey)
          /\ args' = [args EXCEPT !.app_key = k]
          /\ creds' = <<Username(k), Clientkey>>
    /\ cli_pc' = "save"
    /\ UNCHANGED <<exit_code, failure, file, file0, cfg, now, attempts, last_resp,
                   last_err, only_button, catalog, fetched, selected>>
    /\ UNCHANGED hotVars

\* Mutant of EnsureMissingClientkey: a username without a clientkey starts pairing.
EnsureMissingClientkeyRepairs ==
    /\ cli_pc = "ensure"
    /\ ~args.re_pair
    /\ \E k \in CliAppKeys :
          /\ Truthy(Username(k)) /\ ~Truthy(Clientkey)
          /\ args' = [args EXCEPT !.app_key = k]
    /\ cli_pc' = "pairing"
    /\ now' = 0
    /\ attempts' = 0
    /\ last_err' = "none"
    /\ UNCHANGED <<exit_code, failure, file, file0, cfg, creds, last_resp,
                   only_button, catalog, fetched, selected>>
    /\ UNCHANGED hotVars

\* ensure_app_key without force, a username but no clientkey: RuntimeError
\* "Missing clientkey"; main() returns 3.
EnsureMissingClientkey ==
    /\ cli_pc = "ensure"
    /\ ~args.re_pair
    /\ \E k \in CliAppKeys :
          /\ Truthy(Username(k)) /\ ~Truthy(Clientkey)
          /\ args' = [args EXCEPT !.app_key = k]
    /\ Exit("missing_clientkey")
    /\ UNCHANGED <<file, file0, cfg, creds, now, attempts, last_resp,
                   last_err, only_button, catalog, fetched, selected>>
    /\ UNCHANGED hotVars

\* ensure_app_key without force, no username: RuntimeError "No credentials
\* found"; main() returns 3.
EnsureNoCredentials ==
    /\ cli_pc = "ensure"
    /\ ~args.re_pair
    /\ \E k \in CliAppKeys :
          /\ ~Truthy(Username(k))
          /\ args' = [args EXCEPT !.app_key = k]
    /\ Exit("no_credentials")
    /\ UNCHANGED <<file, file0, cfg, creds, now, attempts, last_resp,
                   last_err, only_button, catalog, fetched, selected>>
    /\ UNCHANGED hotVars

(* ------------------------------ pairing -------------------------------- *)

\* What the bridge may answer to pairing request number a: data[0] with
\* "success" (username and clientkey each present, empty or absent), with an
\* "error" ("link button not pressed" or another description), a
\* RequestException, or JSON that is no non-empty list of such items.
PairResponses(a) ==
    {[kind |-> "success", username |-> u, clientkey |-> k] :
        u \in {NoVal, Val("pair", a)}, k \in {NoVal, EmptyVal, Val("pair", a)}}
    \cup {[kind |-> e, username |-> NoVal, clientkey |-> NoVal] :
        e \in {"error_button", "error_other", "exception", "other"}}

\* Mutant of LoopContinues: the deadline itself still starts an attempt.
LoopContinuesAtDeadline(t) == t <= PairWindow

\* while time.time() < deadline
LoopContinues(t) == t < PairWindow

\* Mutant of Accepts: a username alone is enough.
AcceptsUsernameOnly(resp) == resp.kind = "success" /\ Truthy(resp.username)

\* "success" in item, and `if username and clientkey`
Accepts(resp) ==
    resp.kind = "success" /\ Truthy(resp.username) /\ Truthy(resp.clientkey)

\* Mutant of NextLastErr: only "link button not pressed" is recorded.
NextLastErrButtonOnly(resp, old) ==
    CASE resp.kind = "error_button" -> "button"
      [] resp.kind = "exception" -> "exception"
      [] OTHER -> old

\* last_err after the answer: last_err = error_desc for every "error" item,
\* last_err = str(e) for a RequestException, unchanged otherwise
NextLastErr(resp, old) ==
    CASE resp.kind = "error_button" -> "button"
      [] resp.kind = "error_other" -> "other"
      [] resp.kind = "exception" -> "exception"
      [] OTHER -> old

\* how long a request may take, in seconds
RequestTimes == {0, RequestTimeout}

\* Mutant of PairSucceeds: the pair is kept but the loop goes on polling.
PairSucceedsKeepsPolling ==
    /\ cli_pc = "pairing"
    /\ LoopContinues(now)
    /\ \E resp \in PairResponses(attempts + 1), dur \in RequestTimes :
          /\ Accepts(resp)
          /\ last_resp' = resp
          /\ now' = now + dur + SleepSeconds
          /\ creds' = <<resp.username, resp.clientkey>>
          /\ only_button' = FALSE
    /\ attempts' = attempts + 1
    /\ UNCHANGED <<cli_pc, exit_code, failure, args, file, file0, cfg, last_err,
                   catalog, fetched, selected>>
    /\ UNCHANGED hotVars

\* One loop iteration whose answer carries username and clientkey:
\* create_entertainment_user returns them, and ensure_app_key stores both in
\* cfg with updated_at and returns.
PairSucceeds ==
    /\ cli_pc = "pairing"
    /\ LoopContinues(now)
    /\ \E resp \in PairResponses(attempts + 1), dur \in RequestTimes :
          /\ Accepts(resp)
          /\ last_resp' = resp
          /\ now' = now + dur
          /\ creds' = <<resp.username, resp.clientkey>>
          /\ cfg' = [cfg EXCEPT !.app_key = resp.username,
                                !.clientkey = resp.clientkey,
                                !.updated_at = "now"]
          /\ only_button' = FALSE
    /\ attempts' = attempts + 1
    /\ cli_pc' = "save"
    /\ UNCHANGED <<exit_code, failure, args, file, file0, last_err,
                   catalog, fetched, selected>>
    /\ UNCHANGED hotVars

\* One loop iteration with any other answer: last_err is updated, the loop
\* sleeps and tests the deadline again.
PairRetries ==
    /\ cli_pc = "pairing"
    /\ LoopContinues(now)
    /\ \E resp \in PairResponses(attempts + 1), dur \in RequestTimes :
          /\ ~Accepts(resp)
          /\ last_resp' = resp
          /\ last_err' = NextLastErr(resp, last_err)
          /\ now' = now + dur + SleepSeconds
          /\ only_button' = (only_button /\ resp.kind = "error_button")
    /\ attempts' = attempts + 1
    /\ UNCHANGED <<cli_pc, exit_code, failure, args, file, file0, cfg, creds,
                   catalog, fetched, selected>>
    /\ UNCHANGED hotVars

\* Mutant of PairTimeout: the config is written before main() returns 3.
PairTimeoutSavesConfig ==
    /\ cli_pc = "pairing"
    /\ ~LoopContinues(now)
    /\ file' = cfg
    /\ Exit("pairing_timeout")
    /\ UNCHANGED <<args, file0, cfg, creds, now, attempts, last_resp,
                   last_err, only_button, catalog, fetched, selected>>
    /\ UNCHANGED hotVars

\* The deadline has passed: RuntimeError from create_entertainment_user,
\* through ensure_app_key; main() returns 3.
PairTimeout ==
    /\ cli_pc = "pairing"
    /\ ~LoopContinues(now)
    /\ Exit("pairing_timeout")
    /\ UNCHANGED <<args, file, file0, cfg, creds, now, attempts, last_resp,
                   last_err, only_button, catalog, fetched, selected>>
    /\ UNCHANGED hotVars

(* ------------------------------ main(): bridge ------------------------- *)

pairVars == <<now, attempts, last_resp, last_err, only_button>>
areaVars == <<catalog, fetched, selected>>

\* Mutant of SaveConfig: only the app_key of cfg reaches the file.
SaveConfigAppKeyOnly ==
    /\ cli_pc = "save"
    /\ file' = [file EXCEPT !.app_key = cfg.app_key]
    /\ IF args.re_pair
       THEN Exit("none")
       ELSE cli_pc' = "create_bridge" /\ UNCHANGED <<exit_code, failure>>
    /\ UNCHANGED <<args, file0, cfg, creds>>
    /\ UNCHANGED <<pairVars, areaVars, hotVars>>

\* save_config(cfg): the file is rewritten from cfg, or the write fails with
\* a warning; after --re-pair main() returns 0.
SaveConfig ==
    /\ cli_pc = "save"
    /\ file' \in {cfg, file}
    /\ IF args.re_pair
       THEN Exit("none")
       ELSE cli_pc' = "create_bridge" /\ UNCHANGED <<exit_code, failure>>
    /\ UNCHANGED <<args, file0, cfg, creds>>
    /\ UNCHANGED <<pairVars, areaVars, hotVars>>

\* get_bridge_info (never raises) and create_bridge(...) return.
CreateBridgeOk ==
    /\ cli_pc = "create_bridge"
    /\ cli_pc' = "mode"
    /\ UNCHANGED <<exit_code, failure, args, file, file0, cfg, creds>>
    /\ UNCHANGED <<pairVars, areaVars, hotVars>>

\* create_bridge(...) raises: return 4.
CreateBridgeRaises ==
    /\ cli_pc = "create_bridge"
    /\ Exit("bridge_create")
    /\ UNCHANGED <<args, file, file0, cfg, creds>>
    /\ UNCHANGED <<pairVars, areaVars, hotVars>>

\* if args.list or not args.area
ChooseMode ==
    /\ cli_pc = "mode"
    /\ \E l \in BOOLEAN, a \in AreaRequests \cup {<<>>} :
          /\ args' = [args EXCEPT !.list = l, !.area = a]
          /\ cli_pc' = IF l \/ a = <<>> THEN "list" ELSE "construct"
    /\ UNCHANGED <<exit_code, failure, file, file0, cfg, creds>>
    /\ UNCHANGED <<pairVars, areaVars, hotVars>>

\* Listing: Entertainment(bridge) or get_entertainment_configs() raises: return 5.
ListFetchRaises ==
    /\ cli_pc = "list"
    /\ Exit("catalog_fetch")
    /\ UNCHANGED <<args, file, file0, cfg, creds>>
    /\ UNCHANGED <<pairVars, areaVars, hotVars>>

\* Listing: the bridge exposes no configuration: return 6.
ListEmpty ==
    /\ cli_pc = "list"
    /\ catalog' = {}
    /\ fetched' = TRUE
    /\ Exit("empty_catalog")
    /\ UNCHANGED <<args, file, file0, cfg, creds, selected>>
    /\ UNCHANGED <<pairVars, hotVars>>

\* Listing: the configurations are printed: return 0.
ListPrinted ==
    /\ cli_pc = "list"
    /\ catalog' \in Catalogs \ {{}}
    /\ fetched' = TRUE
    /\ Exit("none")
    /\ UNCHANGED <<args, file, file0, cfg, creds, selected>>
    /\ UNCHANGED <<pairVars, hotVars>>

(* ------------------ HueEntertainmentBridge.__init__ -------------------- *)

\* area_id.lower() == entertainment_area_name.lower(), the test of both
\* branches of the selection loop
Matches(entry, name) == Lower(entry.id) = Lower(name)

\* the configurations the selection loop can stop at
Matching(cat, name) == {e \in cat : Matches(e, name)}

\* Entertainment(self.bridge) raises; main() returns 7.
ConstructServiceRaises ==
    /\ cli_pc = "construct"
    /\ Exit("service_init")
    /\ UNCHANGED <<args, file, file0, cfg, creds>>
    /\ UNCHANGED <<pairVars, areaVars, hotVars>>

\* get_entertainment_configs() raises; main() returns 7.
ConstructFetchRaises ==
    /\ cli_pc = "construct"
    /\ Exit("construct_fetch")
    /\ UNCHANGED <<args, file, file0, cfg, creds>>
    /\ UNCHANGED <<pairVars, areaVars, hotVars>>

\* No configuration is selected: ValueError "Entertainment area ... not
\* found"; main() returns 7.
ConstructNotFound ==
    /\ cli_pc = "construct"
    /\ \E cat \in Catalogs :
          /\ Matching(cat, args.area) = {}
          /\ catalog' = cat
    /\ fetched' = TRUE
    /\ Exit("area_not_found")
    /\ UNCHANGED <<args, file, file0, cfg, creds, selected>>
    /\ UNCHANGED <<pairVars, hotVars>>

\* A configuration is selected, Streaming(...) raises; main() returns 7.
ConstructStreamingRaises ==
    /\ cli_pc = "construct"
    /\ \E cat \in Catalogs : \E e \in Matching(cat, args.area) :
          /\ catalog' = cat
          /\ selected' = e.id
    /\ fetched' = TRUE
    /\ Exit("streaming_init")
    /\ UNCHANGED <<args, file, file0, cfg, creds>>
    /\ UNCHANGED <<pairVars, hotVars>>

\* A configuration is selected, the Streaming service is created, the
\* receiver is created, joined and started; run() is entered.
ConstructOk ==
    /\ cli_pc = "construct"
    /\ \E cat \in Catalogs : \E e \in Matching(cat, args.area) :
          /\ catalog' = cat
          /\ selected' = e.id
          /\ num_lights' = e.channels
    /\ fetched' = TRUE
    /\ receiver' = "started"
    /\ mainpc' = "start_stream"
    /\ cli_pc' = "run"
    /\ UNCHANGED <<exit_code, failure, args, file, file0, cfg, creds>>
    /\ UNCHANGED <<driver, session, stream_open, stop_calls, stop_error, client_calls>>
    /\ UNCHANGED <<pairVars, rxVars>>

\* bridge_instance.run() raises (start_streaming failed): return 7.
RunRaised ==
    /\ cli_pc = "run"
    /\ mainpc = "raised"
    /\ Exit("session")
    /\ UNCHANGED <<args, file, file0, cfg, creds>>
    /\ UNCHANGED <<pairVars, areaVars, hotVars>>

\* bridge_instance.run() returns after the interrupt: return 0.
RunReturned ==
    /\ cli_pc = "run"
    /\ mainpc = "done"
    /\ Exit("none")
    /\ UNCHANGED <<args, file, file0, cfg, creds>>
    /\ UNCHANGED <<pairVars, areaVars, hotVars>>

\* State when main() is entered: nothing of the bridge exists yet.
InitMain ==
    /\ cli_pc = "load"
    /\ exit_code = -1
    /\ failure = "none"
    /\ args \in ArgsAtStart
    /\ file \in StoredFiles
    /\ file0 = file
    /\ cfg = EmptyCfg
    /\ creds = <<NoVal, NoVal>>
    /\ now = 0
    /\ attempts = 0
    /\ last_resp = [kind |-> "none", username |-> NoVal, clientkey |-> NoVal]
    /\ last_err = "none"
    /\ only_button = TRUE
    /\ catalog = {}
    /\ fetched = FALSE
    /\ selected = <<>>
    /\ driver = "run"
    /\ mainpc = "main"
    /\ session = "Closed"
    /\ stream_open = FALSE
    /\ receiver = "absent"
    /\ stop_calls = 0
    /\ stop_error = FALSE
    /\ client_calls = 0
    /\ num_lights = 0
    /\ packet_count = 0
    /\ rxpc = "idle"
    /\ dmx = <<>>
    /\ pos = 1
    /\ inputs = <<>>
    /\ arrived_in = "Closed"
    /\ handler_error = FALSE

Credentials ==
    \/ LoadConfig
    \/ ResolveIpFails
    \/ ResolveIpOk
    \/ EnsureForce
    \/ EnsureExisting
    \/ EnsureMissingClientkey
    \/ EnsureNoCredentials
    \/ PairSucceeds
    \/ PairRetries
    \/ PairTimeout
    \/ SaveConfig

Bridge ==
    \/ CreateBridgeOk
    \/ CreateBridgeRaises
    \/ ChooseMode
    \/ ListFetchRaises
    \/ ListEmpty
    \/ ListPrinted
    \/ ConstructServiceRaises
    \/ ConstructFetchRaises
    \/ ConstructNotFound
    \/ ConstructStreamingRaises
    \/ ConstructOk
    \/ RunRaised
    \/ RunReturned

(* ------------------------------ specifications ------------------------- *)

\* The program: run() drives the session while the receiver thread handles frames.
Next ==
    \/ StartStop
    \/ Interrupt
    \/ ReceiverStop
    \/ Handler

Spec == Init /\ [][Next]_vars

\* The class: a client calls start_streaming / stop_streaming in any order
\* while the receiver thread handles frames.
NextApi ==
    \/ ClientStart
    \/ ClientStop
    \/ StartStop
    \/ Handler

SpecApi == InitApi /\ [][NextApi]_vars

\* The command: main() from its entry to its return, with run() driving the
\* session; no frame is delivered.
NextMain ==
    \/ Credentials
    \/ Bridge
    \/ StartStop
    \/ Interrupt
    \/ ReceiverStop

SpecMain == InitMain /\ [][NextMain]_vars

(* ------------------------------ properties ----------------------------- *)

\* set_input has been called for light index i while handling the current frame
Called(i) == \E k \in DOMAIN inputs : inputs[k].color.idx = i

\* a set_input call for a light index below i has raised while handling the current frame
RaisedBelow(i) == \E k \in DOMAIN inputs : inputs[k].color.idx < i /\ ~inputs[k].ok

\* no set_input call of the current frame has raised
NoneRaised == \A k \in DOMAIN inputs : inputs[k].ok

\* the light indices a claim quantifies over: beyond every light count of the model
Indices == 0..(MaxLen + 1)

\* the fraction q equals byte / 255 and lies in [0, 1]
IsByteOver255(q, byte) == q[2] > 0 /\ q[1] * 255 = byte * q[2] /\ 0 <= q[1] /\ q[1] <= q[2]

\* the call c carries light index i and the normalized red, green and blue
\* bytes of light i's block of the current frame
IsUpdateFor(c, i) ==
    /\ c.color.idx = i
    /\ IsByteOver255(c.color.r, dmx[3 * i + 1])
    /\ IsByteOver255(c.color.g, dmx[3 * i + 2])
    /\ IsByteOver255(c.color.b, dmx[3 * i + 3])

\* C1: a frame reaches the streaming session only if it arrived while the
\* session was Active: whenever set_input has been called for the frame
\* being handled, the session was Active when that frame was delivered.
C1_UpdatesOnlyWhileActive == inputs # <<>> => arrived_in = "Active"

\* C2: on the stop signal in run(), the streaming session is stopped only
\* after the receiver has been stopped and no frame is being handled any
\* more: every step of run() that calls stop_stream happens with the
\* receiver stopped and the callback idle.
C2_ReceiverStoppedBeforeSession ==
    [][(driver = "run" /\ stop_calls' > stop_calls)
          => (receiver = "stopped" /\ rxpc = "idle")]_vars

\* C3 (as stated): when a frame has been processed, set_input has been
\* called for light index i exactly when 0 <= i < num_lights and the frame
\* holds at least 3*i + 3 bytes; at most num_lights calls have been made.
C3_UpdateIffCovered_Original ==
    rxpc = "ret" =>
        /\ \A i \in Indices : Called(i) <=> (i < num_lights /\ Len(dmx) >= 3 * i + 3)
        /\ Len(inputs) <= num_lights

\* C3 (amended): when a frame has been processed, set_input has been called
\* for light index i exactly when 0 <= i < num_lights, the frame holds at
\* least 3*i + 3 bytes and no set_input call for a lower index of that frame
\* has raised; at most num_lights calls have been made, so bytes beyond
\* 3*num_lights are ignored and a short frame skips exactly the lights it
\* does not cover.
C3_UpdateIffCoveredAndReached ==
    rxpc = "ret" =>
        /\ \A i \in Indices :
              Called(i) <=> (i < num_lights /\ Len(dmx) >= 3 * i + 3 /\ ~RaisedBelow(i))
        /\ Len(inputs) <= num_lights

\* C3 witness: a processed 4-byte frame with two lights: light 0 was
\* updated, light 1 was skipped.
C3_Witness ==
    /\ rxpc = "ret"
    /\ num_lights = 2
    /\ Len(dmx) = 4
    /\ Len(inputs) = 1
    /\ inputs[1].ok
    /\ inputs[1].color.idx = 0

\* C4 (as stated): a processed frame of exactly num_lights*3 bytes has
\* produced exactly num_lights set_input calls, the k-th for light k-1 with
\* the components (byte[3i]/255, byte[3i+1]/255, byte[3i+2]/255) in [0, 1].
C4_FullFrame_Original ==
    (rxpc = "ret" /\ Len(dmx) = 3 * num_lights) =>
        /\ Len(inputs) = num_lights
        /\ \A k \in DOMAIN inputs : IsUpdateFor(inputs[k], k - 1)

\* C4 (amended): a processed frame of exactly num_lights*3 bytes has
\* produced set_input calls for the light indices 0, 1, ... in that order,
\* the call for light i carrying (byte[3i]/255, byte[3i+1]/255,
\* byte[3i+2]/255), each in [0, 1]; there are exactly num_lights calls
\* unless a call raised, and then the raising call is the frame's last.
C4_FullFrame ==
    (rxpc = "ret" /\ Len(dmx) = 3 * num_lights) =>
        /\ \A k \in DOMAIN inputs : IsUpdateFor(inputs[k], k - 1)
        /\ \A k \in DOMAIN inputs : ~inputs[k].ok => k = Len(inputs)
        /\ NoneRaised => Len(inputs) = num_lights
        /\ Len(inputs) <= num_lights

\* C4 witness: two lights and the frame [255,0,0, 0,255,0] processed with
\* both updates handed over: (1,0,0) for light 0, (0,1,0) for light 1.
C4_Witness ==
    /\ rxpc = "ret"
    /\ num_lights = 2
    /\ dmx = <<255, 0, 0, 0, 255, 0>>
    /\ Len(inputs) = 2
    /\ NoneRaised
    /\ inputs[1].color = [r |-> <<255, 255>>, g |-> <<0, 255>>, b |-> <<0, 255>>, idx |-> 0]
    /\ inputs[2].color = [r |-> <<0, 255>>, g |-> <<255, 255>>, b |-> <<0, 255>>, idx |-> 1]

\* C5: within one frame the set_input calls are made in strictly ascending
\* light-index order.
C5_AscendingOrder ==
    \A a, b \in DOMAIN inputs : a < b => inputs[a].color.idx < inputs[b].color.idx

\* C5 witness: two set_input calls have been made for one frame.
C5_Witness == Len(inputs) >= 2 /\ inputs[1].color.idx = 0 /\ inputs[2].color.idx = 1

\* C6: while the updates of a frame are still being pushed, the listener
\* can accept and deliver the next frame.
C6_ListenerNotBlockedByPush ==
    (receiver = "started" /\ rxpc = "loop" /\ packet_count < MaxPackets)
        => ENABLED DeliverAny

\* C7: when start_streaming has failed in run(), the session is Closed, no
\* stream is left open and the receiver is not left joined and started.
C7_StartFailureLeavesNothingRunning ==
    mainpc = "raised" =>
        /\ session = "Closed"
        /\ ~stream_open
        /\ receiver = "stopped"

\* C8: stop_streaming always leaves the session Closed and never raises:
\* once stop_stream has been called in run(), whether it returned or
\* raised, the session is Closed and run() is at receiver.stop() or past
\* it; receiver.stop() can then be taken, and run() ends with the receiver
\* stopped.
C8_StopNeverPropagates ==
    /\ stop_calls > 0 => (session = "Closed" /\ mainpc \in {"receiver_stop", "done"})
    /\ mainpc = "receiver_stop" => ENABLED ReceiverStop
    /\ mainpc = "done" => (receiver = "stopped" /\ stop_calls > 0)

\* C8 witness: stop_stream raised, the error was logged, and run() has
\* still stopped the receiver and returned.
C8_Witness ==
    /\ stop_error
    /\ mainpc = "done"
    /\ receiver = "stopped"
    /\ session = "Closed"

\* C9: stop_streaming on a Closed session is a no-op: the step that
\* executes it issues no stop_stream call, changes no session state and
\* logs no error.
C9_StopOnClosedIsNoOp ==
    [][(mainpc = "stop_stream" /\ session = "Closed" /\ mainpc' # mainpc)
          => (stop_calls' = stop_calls /\ session' = session
              /\ stream_open' = stream_open /\ stop_error' = stop_error)]_vars

\* C10: a raising set_input is never fatal: the exception is caught and
\* logged in the handler and never ends the receiver thread; after it, the
\* listener delivers further frames, and a frame handled after the failure
\* gets every update it covers.
C10_PushFailureNotFatal ==
    /\ rxpc # "dead"
    /\ rxpc = "ret" /\ ~NoneRaised => handler_error
    /\ (handler_error /\ receiver = "started" /\ rxpc = "idle" /\ packet_count < MaxPackets)
          => ENABLED DeliverAny
    /\ (handler_error /\ rxpc = "ret" /\ NoneRaised)
          => \A i \in Indices : Called(i) <=> (i < num_lights /\ Len(dmx) >= 3 * i + 3)

\* C10 witness: an earlier frame's push failed and was logged, and a later
\* frame has been translated and pushed in full.
C10_Witness ==
    /\ handler_error
    /\ packet_count = 2
    /\ rxpc = "ret"
    /\ num_lights = 2
    /\ Len(inputs) = 2
    /\ NoneRaised


(* ------------------------------ pairing properties --------------------- *)

NoCredentials == <<NoVal, NoVal>>

\* create_entertainment_user was entered and has been left
PairingLeft == attempts > 0 /\ cli_pc # "pairing"

\* C11: when every answer is "link button not pressed", pairing ends with
\* the timeout error, not before 30 seconds have passed on the clock, with
\* no credential returned; and no request is ever started at or after the
\* deadline.
C11_TimeoutOnlyAfterWindow ==
    /\ [](only_button /\ PairingLeft =>
             /\ cli_pc = "exit"
             /\ failure = "pairing_timeout"
             /\ now >= PairWindow
             /\ creds = NoCredentials)
    /\ [][attempts' = attempts + 1 => now < PairWindow]_vars

C11_Witness ==
    /\ only_button
    /\ PairingLeft
    /\ failure = "pairing_timeout"
    /\ last_resp.kind = "error_button"

\* C12: the first answer carrying both a username and a clientkey, on
\* attempt k, ends pairing: exactly that pair is returned, and no request
\* follows attempt k.
C12_FirstFullSuccessReturned ==
    /\ [](Accepts(last_resp) =>
             /\ cli_pc # "pairing"
             /\ creds = <<last_resp.username, last_resp.clientkey>>
             /\ creds[1] = Val("pair", attempts))
    /\ [][Accepts(last_resp) => attempts' = attempts /\ last_resp' = last_resp]_vars

C12_Witness ==
    /\ Accepts(last_resp)
    /\ attempts = 2
    /\ creds = <<Val("pair", 2), Val("pair", 2)>>
    /\ cli_pc = "exit"

\* a "success" answer that lacks the username or the clientkey
PartialSuccess(resp) == resp.kind = "success" /\ ~Accepts(resp)

\* C13: whatever the bridge answers, pairing returns nothing or a pair whose
\* username and clientkey are both present and come from one answer; after a
\* success answer lacking either field nothing is returned and the loop is
\* still polling, or has ended at the deadline with the timeout error.
C13_NeverPartialCredential ==
    /\ (creds[1].src = "pair" \/ creds[2].src = "pair") =>
          /\ Truthy(creds[1]) /\ Truthy(creds[2])
          /\ creds[1] = creds[2]
    /\ PartialSuccess(last_resp) =>
          /\ creds = NoCredentials
          /\ \/ cli_pc = "pairing"
             \/ cli_pc = "exit" /\ failure = "pairing_timeout" /\ now >= PairWindow

C13_Witness ==
    /\ PartialSuccess(last_resp)
    /\ Truthy(last_resp.username)
    /\ cli_pc = "pairing"
    /\ attempts >= 2

\* C14 as stated: an error answer other than "link button not pressed" makes
\* pairing fail at once with a rejection error.
C14_RejectedOnOtherError_Original ==
    last_resp.kind = "error_other" =>
        cli_pc = "exit" /\ failure = "pairing_rejected"

\* C14: an error answer other than "link button not pressed" is recorded as
\* the last error and nothing is returned; the loop goes on polling, and if
\* it then ends without a pair it ends at the deadline with the timeout
\* error. No run ends with a rejection error.
C14_OtherErrorRecordedAndRetried ==
    /\ last_resp.kind = "error_other" =>
          /\ last_err = "other"
          /\ creds = NoCredentials
          /\ \/ cli_pc = "pairing"
             \/ cli_pc = "exit" /\ failure = "pairing_timeout" /\ now >= PairWindow
    /\ failure # "pairing_rejected"

C14_Witness ==
    /\ last_resp.kind = "error_other"
    /\ last_err = "other"
    /\ failure = "pairing_timeout"

(* ------------------------------ credential properties ------------------ *)

\* ensure_app_key was entered and has been left
EnsureLeft == cli_pc \notin {"load", "resolve_ip", "ensure"} /\ failure # "discovery"

\* C15: with a username (from --app-key or from the config), no stored
\* clientkey and no --re-pair, ensure_app_key fails with "Missing
\* clientkey": no pairing request is made and nothing is returned.
C15_MissingClientkeyNeverRepaired ==
    (/\ EnsureLeft
     /\ ~args.re_pair
     /\ Truthy(Username(args.app_key))
     /\ ~Truthy(Clientkey)) =>
        /\ cli_pc = "exit"
        /\ failure = "missing_clientkey"
        /\ exit_code = 3
        /\ attempts = 0
        /\ creds = NoCredentials

C15_Witness ==
    /\ failure = "missing_clientkey"
    /\ args.app_key = Val("cli", 0)
    /\ cfg.app_key = NoVal
    /\ attempts = 0

\* C16: the username and the clientkey that ensure_app_key returns have one
\* origin: both from one pairing answer, or both from the stored config.
C16_PairFromOneOrigin ==
    creds # NoCredentials =>
        /\ creds[1].src = creds[2].src
        /\ creds[1].src \in {"pair", "cfg"}
        /\ creds[1].n = creds[2].n


(* ------------------------------ area properties ------------------------ *)

\* HueEntertainmentBridge.__init__ has read the configurations for --area
AreaRequested == fetched /\ ~args.list /\ args.area # <<>>

\* the requested string equals, ignoring case, the identifier or the name
MatchesIdOrName(entry, name) ==
    Lower(entry.id) = Lower(name) \/ Lower(entry.name) = Lower(name)

\* C17: area resolution succeeds exactly when the requested string equals,
\* ignoring case and in full, the identifier or the display name of a
\* configuration, and selects that configuration; otherwise it fails with
\* the not-found error and neither the receiver nor the session is started.
C17_AreaResolvedByIdOrName ==
    AreaRequested =>
        IF \E e \in catalog : MatchesIdOrName(e, args.area)
        THEN \E e \in catalog : MatchesIdOrName(e, args.area) /\ selected = e.id
        ELSE /\ selected = <<>>
             /\ failure = "area_not_found"
             /\ receiver = "absent"
             /\ ~stream_open

\* C18: a bridge without any configuration is reported as the empty-catalog
\* condition, with --area as with a listing, and the not-found condition is
\* reported only when configurations exist.
C18_EmptyCatalogDistinct ==
    (cli_pc = "exit" /\ fetched) =>
        /\ catalog = {} => failure = "empty_catalog"
        /\ failure = "area_not_found" => catalog # {}

(* ------------------------------ exit codes ----------------------------- *)

\* the failure categories the exit code is said to identify
Categories ==
    {"discovery", "pairing_timeout", "missing_clientkey", "bridge_create",
     "empty_catalog", "area_not_found", "session"}

\* C19 as stated: the exit code is 0 on success, and a run that fails in one
\* of the seven categories returns a code that no other category returns.
C19_ExitCodesOneToOne_Original ==
    cli_pc = "exit" =>
        /\ exit_code = 0 <=> failure = "none"
        /\ failure \in Categories =>
              \A g \in Categories \ {failure} : ExitCode(g) # exit_code

\* C19: the exit code is 0 on success and otherwise names the stage that
\* failed: 2 discovery, 3 credentials (pairing timeout, missing clientkey,
\* no credentials), 4 bridge object creation, 5 reading the configurations
\* for a listing, 6 empty listing, 7 construction or run of the bridge
\* (area not found, service errors, session error).
C19_ExitCodeNamesStage ==
    IF cli_pc # "exit"
    THEN exit_code = -1
    ELSE /\ exit_code \in {0, 2, 3, 4, 5, 6, 7}
         /\ exit_code = 0 <=> failure = "none"
         /\ exit_code = 2 <=> failure = "discovery"
         /\ exit_code = 3 <=>
               failure \in {"pairing_timeout", "missing_clientkey", "no_credentials"}
         /\ exit_code = 4 <=> failure = "bridge_create"
         /\ exit_code = 5 <=> failure = "catalog_fetch"
         /\ exit_code = 6 <=> failure = "empty_catalog"
         /\ exit_code = 7 <=>
               failure \in {"service_init", "construct_fetch", "area_not_found",
                            "streaming_init", "session"}

C19_Witness ==
    /\ cli_pc = "exit"
    /\ exit_code = 7
    /\ failure = "session"
    /\ selected # <<>>

(* ------------------------------ stored pair ---------------------------- *)

\* app_key and clientkey of a config
StoredPair(c) == <<c.app_key, c.clientkey>>

\* username and clientkey of one pairing answer, obtained under --re-pair
FromOnePairing(pair) ==
    /\ args.re_pair
    /\ pair[1].src = "pair"
    /\ pair[1] = pair[2]
    /\ pair = creds

\* C20: app_key and clientkey of the config, in memory and in the file,
\* are both as they were stored (or both absent in memory, when the file is
\* not read), or both the pair of one successful forced re-pairing.
C20_PairNeverPartiallyUpdated ==
    /\ \/ StoredPair(file) = StoredPair(file0)
       \/ FromOnePairing(StoredPair(file))
    /\ \/ StoredPair(cfg) = StoredPair(file0)
       \/ StoredPair(cfg) = NoCredentials
       \/ FromOnePairing(StoredPair(cfg))

C20_Witness ==
    /\ file0.app_key = Val("cfg", 0)
    /\ file0.clientkey = NoVal
    /\ FromOnePairing(StoredPair(file))
    /\ cli_pc = "exit"


(* ------------------------------ last error ----------------------------- *)

\* one request of the pairing loop is made and answered
PairingAttempt == attempts' = attempts + 1

\* C21: the error reported when pairing times out is the most recent error
\* other than "link button not pressed" received in the window: an answer
\* with another error becomes the last error, a "link button not pressed"
\* answer leaves the last error as it was, and the last error at the timeout
\* is never "link button not pressed".
C21_LastErrorIsLastOtherError ==
    /\ [][PairingAttempt =>
             /\ last_resp'.kind = "error_other" => last_err' = "other"
             /\ last_resp'.kind = "error_button" => last_err' = last_err]_vars
    /\ [](failure = "pairing_timeout" => last_err # "button")

(* ------------------------------ config file ---------------------------- *)

\* the failures of ensure_app_key
CredentialFailures == {"pairing_timeout", "missing_clientkey", "no_credentials"}

\* C23: when ensure_app_key fails (pairing timeout, missing clientkey, no
\* credentials), main() returns 3 with the config file, its app_key,
\* clientkey and bridge_ip included, exactly as the run found it.
C23_CredentialFailureLeavesFile ==
    failure \in CredentialFailures =>
        /\ cli_pc = "exit"
        /\ exit_code = 3
        /\ file = file0

C23_Witness ==
    /\ failure = "pairing_timeout"
    /\ cfg.bridge_ip = Val("arg", 0)
    /\ file0.bridge_ip = Val("cfg", 0)
    /\ file = file0


(* ------------------------------ translation properties ----------------- *)

\* the number of lights, out of n, whose three bytes the frame holds
UpdateCount(frame, n) ==
    IF Len(frame) \div ChannelsPerLight < n
    THEN Len(frame) \div ChannelsPerLight
    ELSE n

\* C22: the updates issued for a frame are a function of the frame's bytes
\* and of the light count alone: the k-th call is the update of light k-1
\* computed from the frame, there are never more calls than the frame and
\* the light count allow, and a frame processed without a failing push has
\* exactly that many, whether it is the first frame or a later one.
C22_TranslationKeepsNoState ==
    /\ Len(inputs) <= UpdateCount(dmx, num_lights)
    /\ \A k \in DOMAIN inputs : IsUpdateFor(inputs[k], k - 1)
    /\ (rxpc = "ret" /\ NoneRaised) => Len(inputs) = UpdateCount(dmx, num_lights)

C22_Witness ==
    /\ packet_count = 2
    /\ ~handler_error
    /\ rxpc = "ret"
    /\ num_lights = 2
    /\ dmx = <<0, 255, 0, 255, 0, 255>>
    /\ Len(inputs) = 2

\* C24: when the push for light i raises, the frame is abandoned: the
\* raising call is the last call of the frame, so no light above i gets an
\* update, while the calls made before it, for every covered light below
\* i, returned and stay made; the handler goes to its except clause.
C24_PushFailureAbandonsFrame ==
    \A k \in DOMAIN inputs :
        ~inputs[k].ok =>
            /\ k = Len(inputs)
            /\ rxpc \in {"except", "ret"}
            /\ \A j \in Indices : j > inputs[k].color.idx => ~Called(j)
            /\ \A j \in 1..(k - 1) : inputs[j].ok /\ inputs[j].color.idx = j - 1
            /\ rxpc = "ret" => handler_error

C24_Witness ==
    /\ rxpc = "ret"
    /\ num_lights = 2
    /\ Len(dmx) = 6
    /\ Len(inputs) = 1
    /\ ~inputs[1].ok
    /\ inputs[1].color.idx = 0

====
